---- MODULE Spec2Model ----
(***************************************************************************)
(* A model of the weblog models of coltrane-blog.  The repository holds    *)
(* two versions of the same schema:                                        *)
(*   "legacy"   - src/models.py          (tag_list + EntryManager)         *)
(*   "coltrane" - src/coltrane/models.py (TagField + moderator)            *)
(* The variable impl says which of the two files is the deployed one; it   *)
(* is chosen in Init and never changes.                                    *)
(*                                                                         *)
(* The state is the database (entries, links, the tag store, the comment   *)
(* table), the clock, one Link instance held in memory by a caller         *)
(* (pending), and the outcome of the last call (result).                   *)
(***************************************************************************)
EXTENDS Integers, Sequences, FiniteSets, TLC

VARIABLES impl, now, close_after, entries, links, pending, tags, comments,
          nextEntryId, nextLinkId, result

vars == <<impl, now, close_after, entries, links, pending, tags, comments,
          nextEntryId, nextLinkId, result>>

(***************************************************************************)
(* Bounds of the model.                                                    *)
(***************************************************************************)
MaxEntries == 3
MaxLinks == 2
MaxComments == 6
MaxTime == 4
MaxCloseAfter == 2
MaxNum == 2
TicksPerDay == 2
MaxPosts == 2
MaxRendered == 1

(***************************************************************************)
(* Values.                                                                 *)
(***************************************************************************)
\* Python's None / SQL NULL in a text column.  No text a caller types equals it.
NULL == "<NULL>"

\* ENTRY_STATUS_CHOICES / Entry.STATUS_CHOICES
LIVE_STATUS == 1
DRAFT_STATUS == 2
HIDDEN_STATUS == 3

ENTRY_STATUS_CHOICES == (1 :> "Live") @@ (2 :> "Draft") @@ (3 :> "Hidden")

Statuses == DOMAIN ENTRY_STATUS_CHOICES

Times == 0..MaxTime

Range(s) == {s[i] : i \in DOMAIN s}

\* Python truth of a text value: None and the empty string are false.
Truthy(t) == t # NULL /\ t # ""

\* The markup filter (utils.apply_markup_filter / template_utils formatter):
\* a pure, deterministic function from raw text to HTML.
Render(t) == IF t = "" THEN "" ELSE "<p>" \o t \o "</p>"

\* datetime.timedelta(days): a number of days as clock ticks.
timedelta(days) == days * TicksPerDay

\* The row a model instance has before any field is set: a TextField that is
\* null=True starts as None, any other TextField as the empty string.
NewEntry ==
  [status |-> LIVE_STATUS, pub_date |-> 0, slug |-> "s1", enable_comments |-> TRUE,
   body |-> "", body_html |-> "", excerpt |-> NULL, excerpt_html |-> NULL,
   tag_list |-> <<>>, categories |-> {}]

\* The fields of an Entry a caller (the admin form) sets before save().
EntryEditable ==
  {"status", "pub_date", "slug", "enable_comments", "body", "excerpt", "tag_list",
   "categories"}

\* inst with the editable fields taken from form.
Assign(inst, form, editable) ==
  [f \in DOMAIN inst |-> IF f \in editable THEN form[f] ELSE inst[f]]

(***************************************************************************)
(* The tag store (tagging.models.Tag), keyed by (model, object id).        *)
(***************************************************************************)
TagKeys == ({"entry"} \X (1..(MaxEntries + 1))) \cup ({"link"} \X (1..(MaxLinks + 1)))

\* Tag.objects.get_for_object(obj)
get_tags(key) == tags[key]

\* The tag store Tag.objects.update_tags(obj, tag_list) leaves: the tags of obj
\* become the labels of tag_list, every other object's stay.
MergeTagsMutant(store, key, tag_list) ==
  [store EXCEPT ![key] = @ \cup Range(tag_list)]

update_tags(store, key, tag_list) ==
  [store EXCEPT ![key] = Range(tag_list)]

(***************************************************************************)
(* Entry.save                                                              *)
(***************************************************************************)
\* The markup filter run before the row is written.
EntryMarkup(inst) ==
  LET i1 == IF Truthy(inst.excerpt)
              THEN [inst EXCEPT !.excerpt_html = Render(inst.excerpt)]
              ELSE inst
  IN [i1 EXCEPT !.body_html = Render(inst.body)]

\* unique_together = (('slug', 'pub_date'),) of the legacy Entry: the database
\* refuses a row whose slug and pub_date both equal another row's.  The
\* coltrane Entry declares unique_for_date, which the database does not enforce.
EntryRowConflict(id, inst) ==
  /\ impl = "legacy"
  /\ \E j \in DOMAIN entries :
       /\ j # id
       /\ entries[j].slug = inst.slug
       /\ entries[j].pub_date = inst.pub_date

\* Entry.save() of the instance inst; id = 0 for an instance that has no row yet.
\* tagOk: whether the tag store accepts the rewrite.  The legacy save() writes
\* the row and then sets self.tags, with no transaction around the two; the
\* coltrane save() ends with the row write (its tags are a TagField).
EntrySave(id, inst, tagOk) ==
  LET m == EntryMarkup(inst)
      rowId == IF id = 0 THEN nextEntryId ELSE id
  IN IF EntryRowConflict(id, m)
       THEN /\ result' = [op |-> "Entry.save", id |-> id, error |-> "IntegrityError",
                          value |-> <<>>]
            /\ UNCHANGED <<entries, tags, nextEntryId>>
       ELSE /\ entries' = (rowId :> m) @@ entries
            /\ nextEntryId' = IF id = 0 THEN nextEntryId + 1 ELSE nextEntryId
            /\ IF impl = "legacy"
                 THEN IF tagOk
                        THEN /\ tags' = update_tags(tags, <<"entry", rowId>>, m.tag_list)
                             /\ result' = [op |-> "Entry.save", id |-> rowId,
                                           error |-> "none",
                                           value |-> tags[<<"entry", rowId>>]]
                        ELSE /\ tags' = tags
                             /\ result' = [op |-> "Entry.save", id |-> rowId,
                                           error |-> "TagError",
                                           value |-> tags[<<"entry", rowId>>]]
                 ELSE /\ tags' = tags
                      /\ result' = [op |-> "Entry.save", id |-> rowId,
                                    error |-> "none",
                                    value |-> tags[<<"entry", rowId>>]]

\* A caller builds a new Entry from a form and saves it.
EntryCreate(form, tagOk) ==
  /\ nextEntryId <= MaxEntries
  /\ EntrySave(0, Assign(NewEntry, form, EntryEditable), tagOk)
  /\ UNCHANGED <<impl, now, close_after, links, pending, comments, nextLinkId>>

\* A caller loads the Entry id, edits it from a form and saves it.
EntryUpdate(id, form, tagOk) ==
  /\ id \in DOMAIN entries
  /\ EntrySave(id, Assign(entries[id], form, EntryEditable), tagOk)
  /\ UNCHANGED <<impl, now, close_after, links, pending, comments, nextLinkId>>

\* Entry.delete(): the row goes; the comment table has no foreign key to it.
EntryDelete(id) ==
  /\ id \in DOMAIN entries
  /\ entries' = [j \in DOMAIN entries \ {id} |-> entries[j]]
  /\ result' = [op |-> "Entry.delete", id |-> id, error |-> "none", value |-> <<>>]
  /\ UNCHANGED <<impl, now, close_after, links, pending, tags, comments,
                 nextEntryId, nextLinkId>>

(***************************************************************************)
(* Link.save                                                               *)
(***************************************************************************)
\* The Link instance before any field is set.  description_html is a plain
\* TextField in the legacy file (starts empty) and null=True in the coltrane
\* file (starts None).  posts counts the calls of the bookmarking service
\* made for this Link; it is not a column.
NewLink ==
  [url |-> "u1", slug |-> "s1", pub_date |-> 0, enable_comments |-> TRUE,
   post_elsewhere |-> FALSE,
   description |-> IF impl = "legacy" THEN "" ELSE NULL,
   description_html |-> IF impl = "legacy" THEN "" ELSE NULL,
   tag_list |-> <<>>, posts |-> 0]

LinkEditable ==
  {"url", "slug", "pub_date", "enable_comments", "post_elsewhere", "description",
   "tag_list"}

\* The legacy description column is NOT NULL; the coltrane one is null=True.
LinkFormOk(form) == impl = "legacy" => form.description # NULL

\* "if not self.id and self.post_elsewhere": whether save() calls pydelicious.add.
Posts(id, inst) == id = 0 /\ inst.post_elsewhere

\* The error of the pydelicious.add call that reaches the caller of save():
\* "try: ... except: pass" lets none through.
PostErrorEscapesMutant(postOk) == IF postOk THEN "none" ELSE "PostError"

PostElsewhere(postOk) == "none"

\* The markup filter of Link.save: the legacy file renders the description on
\* every save, the coltrane file only when the description is true.
LinkMarkup(inst) ==
  IF impl = "legacy"
    THEN [inst EXCEPT !.description_html = Render(inst.description)]
    ELSE IF Truthy(inst.description)
           THEN [inst EXCEPT !.description_html = Render(inst.description)]
           ELSE inst

\* url is unique=True in both files; the legacy Link also declares
\* unique_together = (('slug', 'pub_date'),).
LinkSlugOnlyConflictMutant(id, inst) ==
  \E j \in DOMAIN links :
    /\ j # id
    /\ impl = "legacy"
    /\ links[j].slug = inst.slug
    /\ links[j].pub_date = inst.pub_date

LinkRowConflict(id, inst) ==
  \E j \in DOMAIN links :
    /\ j # id
    /\ \/ links[j].url = inst.url
       \/ /\ impl = "legacy"
          /\ links[j].slug = inst.slug
          /\ links[j].pub_date = inst.pub_date

\* What Link.save() of the instance inst leaves behind; id = 0 for an instance
\* that has no row yet.  postOk: whether the bookmarking service accepts the
\* post; tagOk: whether the tag store accepts the rewrite.  inst is what the
\* caller still holds when save() raised before the instance got its row.
LinkSaveOutcome(id, inst, postOk, tagOk) ==
  LET posted == Posts(id, inst)
      i0 == IF posted THEN [inst EXCEPT !.posts = @ + 1] ELSE inst
      m == LinkMarkup(i0)
      rowId == IF id = 0 THEN nextLinkId ELSE id
      call == [posted |-> posted, postOk |-> postOk, hadId |-> id # 0]
      same == [links |-> links, tags |-> tags, nextLinkId |-> nextLinkId]
  IN IF posted /\ PostElsewhere(postOk) # "none"
       THEN same @@ [inst |-> i0,
                     result |-> [op |-> "Link.save", id |-> id,
                                 error |-> PostElsewhere(postOk), value |-> call]]
     ELSE IF LinkRowConflict(id, m)
       THEN same @@ [inst |-> m,
                     result |-> [op |-> "Link.save", id |-> id,
                                 error |-> "IntegrityError", value |-> call]]
     ELSE LET written == [links |-> (rowId :> m) @@ links,
                          nextLinkId |-> IF id = 0 THEN nextLinkId + 1 ELSE nextLinkId,
                          inst |-> m]
          IN IF impl = "legacy" /\ ~tagOk
               THEN written @@ [tags |-> tags,
                                result |-> [op |-> "Link.save", id |-> rowId,
                                            error |-> "TagError", value |-> call]]
               ELSE written @@ [tags |-> IF impl = "legacy"
                                           THEN update_tags(tags, <<"link", rowId>>,
                                                            m.tag_list)
                                           ELSE tags,
                                result |-> [op |-> "Link.save", id |-> rowId,
                                            error |-> "none", value |-> call]]

\* Link.save() on an instance without a row (fresh, or kept after a failed
\* save).  The caller keeps the instance only while it still has no row.
LinkSaveNew(inst, postOk, tagOk) ==
  LET o == LinkSaveOutcome(0, inst, postOk, tagOk)
  IN /\ links' = o.links
     /\ tags' = o.tags
     /\ nextLinkId' = o.nextLinkId
     /\ result' = o.result
     /\ pending' = IF o.result.id = 0 THEN <<o.inst>> ELSE <<>>

\* A caller builds a new Link from a form and saves it.
LinkCreate(form, postOk, tagOk) ==
  /\ pending = <<>>
  /\ nextLinkId <= MaxLinks
  /\ LinkFormOk(form)
  /\ LinkSaveNew(Assign(NewLink, form, LinkEditable), postOk, tagOk)
  /\ UNCHANGED <<impl, now, close_after, entries, comments, nextEntryId>>

\* The caller whose save() raised edits the instance (or not) and saves again.
LinkRetry(form, postOk, tagOk) ==
  /\ pending # <<>>
  /\ pending[1].posts < MaxPosts
  /\ LinkFormOk(form)
  /\ LinkSaveNew(Assign(pending[1], form, LinkEditable), postOk, tagOk)
  /\ UNCHANGED <<impl, now, close_after, entries, comments, nextEntryId>>

\* The caller whose save() raised drops the instance.
LinkDiscard ==
  /\ pending # <<>>
  /\ pending' = <<>>
  /\ result' = [op |-> "discard", id |-> 0, error |-> "none", value |-> <<>>]
  /\ UNCHANGED <<impl, now, close_after, entries, links, tags, comments,
                 nextEntryId, nextLinkId>>

\* A caller loads the Link id, edits it from a form and saves it.
LinkUpdate(id, form, postOk, tagOk) ==
  /\ id \in DOMAIN links
  /\ LinkFormOk(form)
  /\ LET o == LinkSaveOutcome(id, Assign(links[id], form, LinkEditable), postOk, tagOk)
     IN /\ links' = o.links
        /\ tags' = o.tags
        /\ nextLinkId' = o.nextLinkId
        /\ result' = o.result
  /\ UNCHANGED <<impl, now, close_after, entries, pending, comments, nextEntryId>>

(***************************************************************************)
(* Queries.  Each stores what it returns, or the error it raises, in       *)
(* result.                                                                 *)
(***************************************************************************)
Answer(op, id, error, value) ==
  /\ result' = [op |-> op, id |-> id, error |-> error, value |-> value]
  /\ UNCHANGED <<impl, now, close_after, entries, links, pending, tags, comments,
                 nextEntryId, nextLinkId>>

\* EntryManager.live(): self.filter(status__exact=1)
liveDraftsMutant == {id \in DOMAIN entries : entries[id].status # 3}

live == {id \in DOMAIN entries : entries[id].status = 1}

\* EntryManager.drafts(): self.filter(status__exact=2)
drafts == {id \in DOMAIN entries : entries[id].status = 2}

\* Category._get_live_entries: self.entry_set.filter(status__exact=Entry.LIVE_STATUS)
live_entry_set(cat) ==
  {id \in DOMAIN entries : cat \in entries[id].categories /\ entries[id].status = LIVE_STATUS}

Live ==
  /\ impl = "legacy"
  /\ Answer("live", 0, "none", live)

Drafts ==
  /\ impl = "legacy"
  /\ Answer("drafts", 0, "none", drafts)

LiveEntrySet(cat) ==
  /\ impl = "coltrane"
  /\ Answer("live_entry_set", 0, "none",
            [category |-> cat, entries |-> live_entry_set(cat)])

\* get_next_by_pub_date / get_previous_by_pub_date(status__exact=LIVE_STATUS) of
\* the framework: among the rows that pass the filter, those after (before)
\* this one in the order (pub_date, id); the nearest of them is returned, and
\* DoesNotExist is raised when there is none.
Adjacent(id, direction) ==
  LET p == entries[id].pub_date
      After(j) == \/ entries[j].pub_date > p
                  \/ entries[j].pub_date = p /\ j > id
      Before(j) == \/ entries[j].pub_date < p
                   \/ entries[j].pub_date = p /\ j < id
  IN {j \in DOMAIN entries :
        /\ entries[j].status = LIVE_STATUS
        /\ IF direction = "next" THEN After(j) ELSE Before(j)}

\* (pub_date, id) of row j comes no later than that of row k.
NoLater(j, k) ==
  \/ entries[j].pub_date < entries[k].pub_date
  \/ entries[j].pub_date = entries[k].pub_date /\ j <= k

\* Entry._next_previous_helper(direction)
next_previous_helper(id, direction) ==
  LET c == Adjacent(id, direction)
  IN IF c = {}
       THEN [error |-> "DoesNotExist", value |-> 0]
       ELSE [error |-> "none",
             value |-> IF direction = "next"
                         THEN CHOOSE j \in c : \A k \in c : NoLater(j, k)
                         ELSE CHOOSE j \in c : \A k \in c : NoLater(k, j)]

\* Entry.get_next()
GetNext(id) ==
  /\ impl = "coltrane"
  /\ id \in DOMAIN entries
  /\ LET r == next_previous_helper(id, "next")
     IN Answer("get_next", id, r.error, r.value)

\* Entry.get_previous()
GetPrevious(id) ==
  /\ impl = "coltrane"
  /\ id \in DOMAIN entries
  /\ LET r == next_previous_helper(id, "previous")
     IN Answer("get_previous", id, r.error, r.value)

\* Entry.comments_open / Link.comments_open of the legacy file.
comments_open_strict_mutant(obj) ==
  obj.enable_comments /\ now - timedelta(close_after) < obj.pub_date

comments_open(obj) ==
  obj.enable_comments /\ now - timedelta(close_after) <= obj.pub_date

EntryCommentsOpen(id) ==
  /\ impl = "legacy"
  /\ id \in DOMAIN entries
  /\ Answer("Entry.comments_open", id, "none", comments_open(entries[id]))

LinkCommentsOpen(id) ==
  /\ impl = "legacy"
  /\ id \in DOMAIN links
  /\ Answer("Link.comments_open", id, "none", comments_open(links[id]))

\* datetime.datetime.today() moves on.
Tick ==
  /\ now < MaxTime
  /\ now' = now + 1
  /\ result' = [op |-> "tick", id |-> 0, error |-> "none", value |-> <<>>]
  /\ UNCHANGED <<impl, close_after, entries, links, pending, tags, comments,
                 nextEntryId, nextLinkId>>

(***************************************************************************)
(* Comments and EntryManager.most_commented                                *)
(***************************************************************************)
\* The comment table holds, for the Entry content type, rows (object_id,
\* is_public); comments[id] counts them by is_public.
NoComments == [id \in 1..(MaxEntries + 1) |-> [public |-> 0, hidden |-> 0]]

CommentCount == 
  LET Sum[n \in 0..(MaxEntries + 1)] ==
        IF n = 0 THEN 0 ELSE Sum[n - 1] + comments[n].public + comments[n].hidden
  IN Sum[MaxEntries + 1]

\* A visitor comments on a stored entry; the comment is public or not.
CommentAdd(id, is_public) ==
  /\ id \in DOMAIN entries
  /\ CommentCount < MaxComments
  /\ comments' = IF is_public
                   THEN [comments EXCEPT ![id].public = @ + 1]
                   ELSE [comments EXCEPT ![id].hidden = @ + 1]
  /\ result' = [op |-> "comment", id |-> id, error |-> "none", value |-> is_public]
  /\ UNCHANGED <<impl, now, close_after, entries, links, pending, tags,
                 nextEntryId, nextLinkId>>

\* The rows of "SELECT object_id, COUNT(*) AS score ... WHERE is_public = 1
\* GROUP BY object_id": the object ids that have a public comment.
Scored == {id \in DOMAIN comments : comments[id].public > 0}

\* "ORDER BY score DESC": rows is one of the orders the database may return.
OrderedByScore(rows) ==
  /\ Len(rows) = Cardinality(Scored)
  /\ Range(rows) = Scored
  /\ \A i \in 1..(Len(rows) - 1) : comments[rows[i]].public >= comments[rows[i + 1]].public

\* rows[:num]
Take(rows, num) == SubSeq(rows, 1, IF num < Len(rows) THEN num ELSE Len(rows))

\* EntryManager.most_commented(num): the first num object ids, looked up with
\* in_bulk; entry_dict[entry_id] raises KeyError for an id that has no row.
most_commented(rows, num) ==
  LET entry_ids == Take(rows, num)
  IN IF \E i \in DOMAIN entry_ids : entry_ids[i] \notin DOMAIN entries
       THEN [error |-> "KeyError", value |-> <<>>]
       ELSE [error |-> "none", value |-> entry_ids]

MostCommented(rows, num) ==
  /\ impl = "legacy"
  /\ OrderedByScore(rows)
  /\ LET r == most_commented(rows, num)
     IN Answer("most_commented", num, r.error, r.value)

(***************************************************************************)
(* Initial states and inputs.                                              *)
(***************************************************************************)
Impls == {"legacy", "coltrane"}

Bodies == {"a", "b"}
Excerpts == {NULL, "", "a"}
Descriptions == {NULL, "", "a", "b"}
Slugs == {"s1", "s2"}
Urls == {"u1", "u2"}
Categories == {"c1"}
TagLists == {<<>>, <<"a", "b">>, <<"c">>}

EntryIds == 1..MaxEntries
LinkIds == 1..MaxLinks

Empty == [id \in {} |-> 0]

InitDb ==
  /\ impl \in Impls
  /\ now = 0
  /\ entries = Empty
  /\ links = Empty
  /\ pending = <<>>
  /\ tags = [k \in TagKeys |-> {}]
  /\ comments = NoComments
  /\ nextEntryId = 1
  /\ nextLinkId = 1
  /\ result = [op |-> "init", id |-> 0, error |-> "none", value |-> <<>>]

EntryForm(status, pub_date, slug, enable, body, excerpt, tag_list, cats) ==
  [status |-> status, pub_date |-> pub_date, slug |-> slug, enable_comments |-> enable,
   body |-> body, excerpt |-> excerpt, tag_list |-> tag_list, categories |-> cats]

LinkForm(url, slug, pub_date, enable, post, description, tag_list) ==
  [url |-> url, slug |-> slug, pub_date |-> pub_date, enable_comments |-> enable,
   post_elsewhere |-> post, description |-> description, tag_list |-> tag_list]

(***************************************************************************)
(* Spec: entries are written and rewritten, with their texts and tags.     *)
(***************************************************************************)
MaxTextEntries == 2

TextForms ==
  {EntryForm(LIVE_STATUS, 0, "s1", TRUE, b, e, <<>>, {}) : b \in Bodies, e \in Excerpts}
  \cup {EntryForm(LIVE_STATUS, 0, "s2", TRUE, "a", NULL, t, {}) : t \in TagLists}

Init ==
  /\ InitDb
  /\ close_after = 1

Next ==
  \/ \E form \in TextForms, tagOk \in BOOLEAN :
       /\ nextEntryId <= MaxTextEntries
       /\ EntryCreate(form, tagOk)
  \/ \E id \in EntryIds, form \in TextForms, tagOk \in BOOLEAN :
       EntryUpdate(id, form, tagOk)

Spec == Init /\ [][Next]_vars

(***************************************************************************)
(* SpecLink: links are created, retried after a failed save and rewritten, *)
(* with the bookmarking service and the tag store failing or not.          *)
(***************************************************************************)
LinkForms ==
  {LinkForm(u, IF u = "u1" THEN "s1" ELSE "s2", 0, TRUE, p, "a", <<>>) :
     u \in Urls, p \in BOOLEAN}
  \cup {LinkForm("u2", "s1", 0, TRUE, FALSE, "a", <<"c">>)}

\* What the collaborators do during one save: <<postOk, tagOk>>.
Faults == {<<TRUE, TRUE>>, <<FALSE, TRUE>>, <<TRUE, FALSE>>}

InitLink ==
  /\ InitDb
  /\ close_after = 1

NextLink ==
  \/ \E form \in LinkForms, f \in Faults : LinkCreate(form, f[1], f[2])
  \/ \E form \in LinkForms, f \in Faults : LinkRetry(form, f[1], f[2])
  \/ LinkDiscard
  \/ \E id \in LinkIds, form \in LinkForms, f \in Faults : LinkUpdate(id, form, f[1], f[2])

SpecLink == InitLink /\ [][NextLink]_vars

(***************************************************************************)
(* SpecRender: one entry and one link are written and rewritten with       *)
(* different texts.                                                        *)
(***************************************************************************)
BodyForms == {EntryForm(LIVE_STATUS, 0, "s1", TRUE, b, e, <<>>, {}) :
                b \in Bodies, e \in {NULL, "a"}}

DescriptionForms == {LinkForm("u1", "s1", 0, TRUE, FALSE, d, <<>>) : d \in Descriptions}

InitRender ==
  /\ InitDb
  /\ close_after = 1

NextRender ==
  \/ \E form \in BodyForms :
       /\ nextEntryId <= MaxRendered
       /\ EntryCreate(form, TRUE)
  \/ \E id \in EntryIds, form \in BodyForms : EntryUpdate(id, form, TRUE)
  \/ \E form \in DescriptionForms :
       /\ nextLinkId <= MaxRendered
       /\ LinkCreate(form, TRUE, TRUE)
  \/ \E id \in LinkIds, form \in DescriptionForms : LinkUpdate(id, form, TRUE, TRUE)

SpecRender == InitRender /\ [][NextRender]_vars

(***************************************************************************)
(* SpecQuery: entries of every status and date are created and deleted,    *)
(* and the status filters and the neighbour lookups are asked.             *)
(***************************************************************************)
QueryDates == {0, 1, 2}

\* Entries dated 1 are in no category, the others in c1.
QueryForms ==
  {EntryForm(st, d, "s1", TRUE, "a", NULL, <<>>, IF d = 1 THEN {} ELSE Categories) :
     st \in Statuses, d \in QueryDates}

InitQuery ==
  /\ InitDb
  /\ close_after = 1

NextQuery ==
  \/ \E form \in QueryForms : EntryCreate(form, TRUE)
  \/ \E id \in EntryIds : EntryDelete(id)
  \/ Live
  \/ Drafts
  \/ \E cat \in Categories : LiveEntrySet(cat)
  \/ \E id \in EntryIds : GetNext(id)
  \/ \E id \in EntryIds : GetPrevious(id)

SpecQuery == InitQuery /\ [][NextQuery]_vars

(***************************************************************************)
(* SpecModeration: one entry and one link are written with any date and    *)
(* comment switch, the clock moves, and comments_open is asked.            *)
(***************************************************************************)
ModeratedEntryForms ==
  {EntryForm(LIVE_STATUS, d, "s1", en, "a", NULL, <<>>, {}) : d \in Times, en \in BOOLEAN}

ModeratedLinkForms ==
  {LinkForm("u1", "s1", d, en, FALSE, "a", <<>>) : d \in Times, en \in BOOLEAN}

InitModeration ==
  /\ InitDb
  /\ close_after \in 0..MaxCloseAfter

NextModeration ==
  \/ \E form \in ModeratedEntryForms :
       /\ entries = Empty
       /\ EntryCreate(form, TRUE)
  \/ \E form \in ModeratedLinkForms :
       /\ links = Empty
       /\ LinkCreate(form, TRUE, TRUE)
  \/ \E id \in EntryIds : EntryCommentsOpen(id)
  \/ \E id \in LinkIds : LinkCommentsOpen(id)
  \/ Tick

SpecModeration == InitModeration /\ [][NextModeration]_vars

(***************************************************************************)
(* SpecComments: entries of the legacy file are created and deleted,       *)
(* visitors comment, and most_commented is asked.                          *)
(***************************************************************************)
CommentedForms ==
  {EntryForm(LIVE_STATUS, d, "s1", TRUE, "a", NULL, <<>>, {}) : d \in QueryDates}

\* Every order of at most MaxEntries object ids.
Orders ==
  UNION {{r \in [1..n -> 1..(MaxEntries + 1)] : \A i, j \in 1..n : i # j => r[i] # r[j]} :
           n \in 0..MaxEntries}

InitComments ==
  /\ InitDb
  /\ impl = "legacy"
  /\ close_after = 1

NextComments ==
  \/ \E form \in CommentedForms : EntryCreate(form, TRUE)
  \/ \E id \in EntryIds : EntryDelete(id)
  \/ \E id \in EntryIds, is_public \in BOOLEAN : CommentAdd(id, is_public)
  \/ \E rows \in Orders, num \in 1..MaxNum : MostCommented(rows, num)

SpecComments == InitComments /\ [][NextComments]_vars

(***************************************************************************)
(* Properties.                                                             *)
(***************************************************************************)
Blank(t) == t = NULL \/ t = ""

\* html is the rendering of src; an absent source has an absent rendering.
Mirrors(src, html) == IF Blank(src) THEN Blank(html) ELSE html = Render(src)

Saved(op) == result.op = op /\ result.error = "none"

\* C1: after every successful save the stored body_html of an Entry is
\* render(body) and the stored description_html of a Link is
\* render(description).
C1_HtmlIsRenderOfSource ==
  /\ Saved("Entry.save") =>
       entries[result.id].body_html = Render(entries[result.id].body)
  /\ Saved("Link.save") =>
       Mirrors(links[result.id].description, links[result.id].description_html)

\* C2: after every successful save of an Entry, the stored excerpt_html is the
\* rendering of the stored excerpt, also when the excerpt was emptied.
C2_ExcerptHtmlMirrorsExcerpt ==
  Saved("Entry.save") =>
    Mirrors(entries[result.id].excerpt, entries[result.id].excerpt_html)

\* C5: a failed tag rewrite persists nothing of the save: no stored row of the
\* legacy file has tag associations other than those of its tag_list.
C5_TagFailureAbortsSave ==
  impl = "legacy" =>
    /\ \A id \in DOMAIN entries : get_tags(<<"entry", id>>) = Range(entries[id].tag_list)
    /\ \A id \in DOMAIN links : get_tags(<<"link", id>>) = Range(links[id].tag_list)

\* The key in the tag store of the object the last call was about.
SavedKey(r) == <<IF r.op = "Entry.save" THEN "entry" ELSE "link", r.id>>

SavedTagList(r, es, ls) ==
  IF r.op = "Entry.save" THEN es[r.id].tag_list ELSE ls[r.id].tag_list

C3_PostedAtMostOncePerLink ==
  /\ \A id \in DOMAIN links : links[id].posts <= 1
  /\ pending # <<>> => pending[1].posts <= 1
  /\ (result.op = "Link.save" /\ result.value.hadId) => ~result.value.posted

\* What a save leaves in the database and with the caller.
Persisted(o) ==
  [links |-> o.links, tags |-> o.tags, nextLinkId |-> o.nextLinkId, inst |-> o.inst,
   error |-> o.result.error, id |-> o.result.id]

\* The instances without a row a caller may save in this state.
Unsaved ==
  {Assign(NewLink, form, LinkEditable) : form \in LinkForms}
  \cup {Assign(pending[i], form, LinkEditable) : i \in DOMAIN pending, form \in LinkForms}

\* C4: a failed post never aborts Link.save: no error of the post reaches the
\* caller, the row of a new Link is written unless the database refuses it,
\* and the save leaves exactly what it leaves when the post succeeds.
C4_PostFailureNeverAbortsSave ==
  /\ (result.op = "Link.save" /\ result.value.posted /\ ~result.value.postOk) =>
       /\ result.error \in {"none", "IntegrityError", "TagError"}
       /\ result.error # "IntegrityError" =>
            /\ result.id \in DOMAIN links
            /\ links[result.id].description_html = Render(links[result.id].description)
  /\ \A inst \in Unsaved, tagOk \in BOOLEAN :
       Persisted(LinkSaveOutcome(0, inst, FALSE, tagOk))
         = Persisted(LinkSaveOutcome(0, inst, TRUE, tagOk))

\* A new Link with post_elsewhere was saved, the post failed, and the row is
\* stored with its rendered description.
C4_Witness ==
  /\ Saved("Link.save")
  /\ result.value.posted
  /\ ~result.value.postOk
  /\ result.id \in DOMAIN links
  /\ links[result.id].post_elsewhere
  /\ links[result.id].description_html = Render(links[result.id].description)

\* The name of the status of a stored entry.
StatusName(id) == ENTRY_STATUS_CHOICES[entries[id].status]

\* The Live entries dated strictly after (dir = 1) or before (dir = -1) entry id.
StrictlyBeyond(id, dir) ==
  {j \in DOMAIN entries :
     /\ StatusName(j) = "Live"
     /\ dir * entries[j].pub_date > dir * entries[id].pub_date}

\* The call returned the Live entry nearest in date on that side, or None
\* (written 0) when there is no Live entry on that side.
NearestOrNone(id, dir) ==
  /\ result.error = "none"
  /\ IF StrictlyBeyond(id, dir) = {}
       THEN result.value = 0
       ELSE /\ result.value \in StrictlyBeyond(id, dir)
            /\ \A k \in StrictlyBeyond(id, dir) :
                 dir * entries[result.value].pub_date <= dir * entries[k].pub_date

\* C6: get_next / get_previous return the Live entry whose pub_date is the
\* closest strictly after / before the entry's, skipping Draft and Hidden
\* entries, or none when there is no such entry.
C6_NextPreviousLive ==
  /\ result.op = "get_next" => NearestOrNone(result.id, 1)
  /\ result.op = "get_previous" => NearestOrNone(result.id, -1)

PublicCount(id) == comments[id].public

\* C7: most_commented(n) returns at most n existing entries, in order of
\* non-increasing public-comment count, and no entry left out has more public
\* comments than one returned.
C7_MostCommentedRanksExistingEntries ==
  result.op = "most_commented" =>
    /\ result.error = "none"
    /\ Len(result.value) <= result.id
    /\ \A i \in DOMAIN result.value : result.value[i] \in DOMAIN entries
    /\ \A i \in 1..(Len(result.value) - 1) :
         PublicCount(result.value[i]) >= PublicCount(result.value[i + 1])
    /\ \A e \in DOMAIN entries \ Range(result.value), i \in DOMAIN result.value :
         PublicCount(e) <= PublicCount(result.value[i])

\* C8: live() returns exactly the entries whose status is Live, drafts()
\* exactly those whose status is Draft, and the live entries of a category
\* are exactly its entries whose status is Live.
C8_LiveAndDraftsFilterByStatus ==
  /\ result.op = "live" =>
       result.value = {id \in DOMAIN entries : StatusName(id) = "Live"}
  /\ result.op = "drafts" =>
       result.value = {id \in DOMAIN entries : StatusName(id) = "Draft"}
  /\ result.op = "live_entry_set" =>
       result.value.entries =
         {id \in DOMAIN entries :
            StatusName(id) = "Live" /\ result.value.category \in entries[id].categories}

\* live() returned something while a Draft and a Hidden entry were stored.
C8_Witness ==
  /\ result.op = "live"
  /\ result.value # {}
  /\ \E id \in DOMAIN entries : StatusName(id) = "Draft"
  /\ \E id \in DOMAIN entries : StatusName(id) = "Hidden"

\* The Entry or Link the last comments_open call was asked about.
Asked == IF result.op = "Entry.comments_open" THEN entries[result.id] ELSE links[result.id]

\* C9: comments_open is true exactly when enable_comments is set and
\* now - pub_date is at most close_after days.
C9_CommentsOpenIffEnabledAndRecent ==
  result.op \in {"Entry.comments_open", "Link.comments_open"} =>
    (result.value <=>
       (Asked.enable_comments /\ now - Asked.pub_date <= close_after * TicksPerDay))

\* comments_open answered true exactly close_after days after pub_date.
C9_Witness ==
  /\ result.op = "Entry.comments_open"
  /\ result.value
  /\ close_after > 0
  /\ now - entries[result.id].pub_date = close_after * TicksPerDay

\* inst has the url of a stored Link other than id.
UrlTaken(id, inst) == \E j \in DOMAIN links : j # id /\ links[j].url = inst.url

\* save() raised the uniqueness error and left the stored links as they were.
Refused(o) == o.result.error = "IntegrityError" /\ o.links = links

\* C11: Link url is unique: a save of a Link whose url is that of another
\* stored Link raises the uniqueness error and leaves the stored links
\* unchanged, and no two stored Links share a url.
C11_LinkUrlUnique ==
  /\ \A i, j \in DOMAIN links : i # j => links[i].url # links[j].url
  /\ \A inst \in Unsaved, f \in Faults :
       UrlTaken(0, inst) => Refused(LinkSaveOutcome(0, inst, f[1], f[2]))
  /\ \A id \in DOMAIN links, form \in LinkForms, f \in Faults :
       UrlTaken(id, Assign(links[id], form, LinkEditable)) =>
         Refused(LinkSaveOutcome(id, Assign(links[id], form, LinkEditable), f[1], f[2]))
  /\ (result.op = "Link.save" /\ result.error = "IntegrityError" /\ result.id # 0) =>
       result.id \in DOMAIN links

\* The coltrane Link.save of a new Link with the url of a stored Link raised
\* the uniqueness error; the caller still holds the instance, without a row.
C11_Witness ==
  /\ impl = "coltrane"
  /\ result.op = "Link.save"
  /\ result.error = "IntegrityError"
  /\ pending # <<>>
  /\ \E j \in DOMAIN links : links[j].url = pending[1].url
  /\ \A j \in DOMAIN links : links[j] # pending[1]

\* The calendar date of a timestamp.
DateOf(t) == t \div TicksPerDay

\* C12: Entry slug is unique within a publication date: no two stored
\* entries have the same slug and pub_dates on the same calendar date,
\* whatever the times of day.
C12_SlugUniquePerDate ==
  \A i, j \in DOMAIN entries :
    i # j => ~(/\ entries[i].slug = entries[j].slug
               /\ DateOf(entries[i].pub_date) = DateOf(entries[j].pub_date))

====
